---------------------------- MODULE Spec2Model ----------------------------
(***************************************************************************)
(* State-machine model of the landmark drawing panel of src/app/layout.jsx *)
(* (the zustand store, DrawingPanel with its fabric canvas and undo/redo   *)
(* history, the Earth click handler and the asynchronous save).            *)
(*                                                                         *)
(* React state is modelled as the value the next render sees.  A closure   *)
(* that the code creates once per session (saveHistory, created inside the *)
(* init effect) keeps the values of the render that created it; the model  *)
(* stores those captured values in their own variable.  Closures created   *)
(* on every render (undo, redo, handleSave) read the current values.       *)
(*                                                                         *)
(* The fabric canvas is the list of its objects.  fabric fires             *)
(* 'object:added' for every object that canvas.add()/insertAt() puts on    *)
(* the canvas, also while loadFromJSON rebuilds it; whether canvas.clear() *)
(* fires 'object:removed' per object depends on the fabric release (the    *)
(* repository pins none), so it is a choice made once, in Init.            *)
(*                                                                         *)
(* The landmarks table is the list of its rows.  An insert is stored by    *)
(* the table first and answered afterwards; the initial select('*') of     *)
(* Home is answered with the rows of that moment; every stored row is      *)
(* announced on the realtime channel.  Answers and announcements reach the *)
(* client in any order.  When store.landmarks holds a function the model   *)
(* follows the store only; rendering Landmarks then throws.                *)
(*                                                                         *)
(* Filters replace the filter list of the selected object and fire no      *)
(* canvas event.  The three brush objects of a canvas are their colour and *)
(* width; the tool states of DrawingPanel outlive a session because the    *)
(* component stays mounted.  The sphere geometry is exact arithmetic on    *)
(* the directions with rational sine and cosine, angles in millionths of a *)
(* degree.  The API handler of src/unnamed/part_001 serves one request at  *)
(* a time against the same table.                                          *)
(***************************************************************************)
EXTENDS Integers, Sequences, FiniteSets, TLC

(* ------------------------------ bounds -------------------------------- *)
\* cap on the history cursor: no edit is taken once historyIndex reaches it
MaxIndex == 3
\* cap on the number of objects on the canvas
MaxObjs == 2
\* cap on the rows of the landmarks table plus the inserts not yet stored
MaxSaves == 2
\* cap on the length of the observer log of one session
MaxLog == 6

(* --------------------------- program values --------------------------- *)
\* shapes of addShape (circle and triangle take the same path as rect)
ShapeTypes == {"rect"}
\* an object is moved between two places by a drag
Places == {0, 1}
\* designations typed into the name input, as lists of characters
Names == {<<>>, <<" ", " ">>, <<" ", "a">>}
\* maxLength of the name input
NameMaxLength == 30
\* texts pasted into the name input that are longer than it accepts
LongTexts == {[j \in 1..31 |-> "a"], [j \in 1..31 |-> " "]}
\* a brush object before the first canvas is created
NoBrush == [color |-> "none", width |-> 0]
\* backgroundColor of the canvas
Background == "#1a1a1a"
\* colors picked, brush sizes set on the range input, options of the select
Colors == {"#00ffc3", "#ff00c1"}
Sizes == {5, 20}
BrushTypes == {"pencil", "spray", "calligraphic"}
\* limits of the zoom buttons, in tenths
ZoomMin == 5
ZoomMax == 30
\* filter buttons (brightness and contrast take the same path as these)
FilterTypes == {"blur", "grayscale"}
\* coordinates the click handler computes for the picks of a run
Picks == {<<12000000, -56000000>>, <<45000000, 90000000>>}
\* a req.body with no field
NoBody == [name |-> <<>>, lat |-> <<>>, lng |-> <<>>, drawing_data |-> <<>>]
\* the landmark another client of the table inserts
OtherLandmark ==
    [name |-> <<"b">>, lat |-> 0, lng |-> 0, drawing_data |-> [png |-> <<>>]]

VARIABLES
    isDrawingPanelOpen, \* store.isDrawingPanelOpen
    currentLat,         \* store.currentLat
    currentLng,         \* store.currentLng
    landmarks,          \* store.landmarks while it is an array
    landmarksIsFn,      \* store.landmarks is a function, not an array
    fabricRef,          \* fabricRef.current: "null", "live" or "disposed"
    liveCanvases,       \* fabric canvases created and not yet disposed
    canvas,             \* objects of the canvas fabricRef.current points to
    history,            \* useState history
    historyIndex,       \* useState historyIndex (0-based, -1 before any session)
    closureIndex,       \* historyIndex as captured by the session's saveHistory
    name,               \* useState name
    pending,            \* supabase inserts in flight
    tableRows,          \* rows of the landmarks table, in insertion order
    fetched,            \* the select('*') that Home issues on mount
    realtime,           \* ids of the INSERT notifications in flight
    clearFiresRemoved,  \* fabric release: does clear() fire 'object:removed'
    opLog,              \* observer: the session's operations and their results
    openedAt,           \* observer: coordinate of the pick that opened the session
    active,             \* canvas.getActiveObject(): its place in canvas, 0 if none
    loading,            \* image files being read by importImage
    zoom,               \* useState zoom, in tenths
    color,              \* useState color
    brushSize,          \* useState brushSize
    isErasing,          \* useState isErasing
    brushType,          \* useState brushType
    brushes,            \* color and width of the canvas' three brush objects
    freeDrawingBrush,   \* canvas.freeDrawingBrush: the brush object installed
    sprite,             \* the landmark sprite Landmarks drew last, if any
    stale,              \* observer: inserts in flight issued by a session
                        \* that has been closed since
    api                 \* the request the API handler is serving, with the
                        \* responses sent and the rows inserted for it

vars == <<isDrawingPanelOpen, currentLat, currentLng, landmarks,
          landmarksIsFn, fabricRef, liveCanvases, canvas, history,
          historyIndex, closureIndex, name, pending, tableRows, fetched,
          realtime, clearFiresRemoved, opLog, openedAt, active, loading, zoom,
          color, brushSize, isErasing, brushType, brushes, freeDrawingBrush,
          sprite, stale, api>>

storeVars == <<isDrawingPanelOpen, currentLat, currentLng, landmarks,
               landmarksIsFn>>
brushVars == <<brushes, freeDrawingBrush>>
refVars == <<fabricRef, liveCanvases, openedAt, brushVars>>
toolVars == <<zoom, color, brushSize, isErasing, brushType>>
serverVars == <<tableRows, fetched, realtime>>
\* what the panel, the store and Home never write
envVars == <<clearFiresRemoved, sprite, api>>
\* what no handler of the panel, the store or Home writes
restVars == <<envVars, loading, toolVars>>
\* the same and what only the end of a session or of an insert writes
idleVars == <<restVars, stale>>
\* the selection on the canvas
selVars == <<active>>
\* what only a few handlers write
otherVars == <<idleVars, selVars>>
saveVars == <<pending, serverVars>>

(* ------------------------------ helpers ------------------------------- *)
Min(a, b) == IF a < b THEN a ELSE b
Max(a, b) == IF a > b THEN a ELSE b

\* Array.prototype.slice(0, end) for end >= 0
Slice(s, end) == SubSeq(s, 1, Min(end, Len(s)))

\* arr[i] is not undefined (0-based index)
Defined(s, i) == i >= 0 /\ i < Len(s)

\* arr[i] with a 0-based index, where it is defined
At(s, i) == s[i + 1]

RECURSIVE TrimStart(_)
TrimStart(s) == IF s # <<>> /\ Head(s) = " " THEN TrimStart(Tail(s)) ELSE s

RECURSIVE TrimEnd(_)
TrimEnd(s) ==
    IF s # <<>> /\ s[Len(s)] = " " THEN TrimEnd(SubSeq(s, 1, Len(s) - 1)) ELSE s

\* String.prototype.trim
Trim(s) == TrimEnd(TrimStart(s))

\* canvas.toJSON(): the serialized objects, in stacking order; only an
\* image serializes its filters
ToJSON(cv) ==
    [j \in 1..Len(cv) |->
        IF cv[j].kind = "image" THEN cv[j] ELSE [cv[j] EXCEPT !.filters = <<>>]]

\* canvas.toDataURL('png'): the flattened drawing
ToDataURL(cv) == [png |-> cv]

(* ------------------------- observer (not code) ------------------------ *)
\* operation sequences of a fresh session that the observer follows
Tracked ==
    { <<"edit", "edit", "edit", "undo", "undo", "redo">>,
      <<"edit", "edit", "edit", "undo", "edit", "redo">>,
      <<"undo">>,
      <<"redo">>,
      <<"edit", "redo">>,
      <<"edit", "undo", "undo">> }

IsPrefix(s, t) == Len(s) <= Len(t) /\ SubSeq(t, 1, Len(s)) = s

\* the log after one more operation, which leaves the canvas as cv, the
\* cursor at i and the history stack n snapshots long
Logged(op, cv, i, n) ==
    LET ops == [j \in 1..Len(opLog) |-> opLog[j].op] \o <<op>>
    IN  IF Len(opLog) < MaxLog /\ \E t \in Tracked : IsPrefix(ops, t)
        THEN Append(opLog, [op |-> op, cv |-> cv, i |-> i, n |-> n])
        ELSE <<[op |-> "off", cv |-> <<>>, i |-> 0, n |-> 0]>>

LogOps == [j \in 1..Len(opLog) |-> opLog[j].op]

\* a handle for the next insert in flight (the promise handleSave awaits)
FreeCall ==
    CHOOSE c \in 1..(Cardinality(pending) + 1) :
        \A p \in pending : p.call # c

\* inserts in flight that the server has not stored yet
Unstored == Cardinality({p \in pending : p.row = 0})

\* the row the table returns for an inserted record: the record plus its id
StoredRow(id, p) ==
    [id |-> id, name |-> p.name, lat |-> p.lat, lng |-> p.lng,
     drawing_data |-> p.drawing_data]

(* ------------------------------ history ------------------------------- *)
\* the two state updaters of one saveHistory call, applied to (h, i)
SaveHistory(h, i, cv) ==
    IF fabricRef = "null"
    THEN [h |-> h, i |-> i]
    ELSE [h |-> Append(Slice(h, closureIndex + 1), ToJSON(cv)), i |-> i + 1]

\* saveHistory run once for each canvas state in states, in order
RECURSIVE SaveEach(_, _, _)
SaveEach(h, i, states) ==
    IF states = <<>>
    THEN [h |-> h, i |-> i]
    ELSE LET one == SaveHistory(h, i, Head(states))
         IN  SaveEach(one.h, one.i, Tail(states))

\* canvas states at which clear() fires 'object:removed' for canvas cv
RemovedStates(cv) ==
    IF clearFiresRemoved
    THEN [j \in 1..Len(cv) |-> SubSeq(cv, j + 1, Len(cv))]
    ELSE <<>>

\* canvas states at which loadFromJSON fires 'object:added' for snapshot json
AddedStates(json) == [j \in 1..Len(json) |-> SubSeq(json, 1, j)]

\* events of fabricRef.current.loadFromJSON(json, ...) on canvas cv
LoadStates(cv, json) == RemovedStates(cv) \o AddedStates(json)

(* ------------------------------- Init --------------------------------- *)
Init ==
    /\ isDrawingPanelOpen = FALSE
    /\ currentLat = 0
    /\ currentLng = 0
    /\ landmarks = <<>>
    /\ landmarksIsFn = FALSE
    /\ fabricRef = "null"
    /\ liveCanvases = 0
    /\ canvas = <<>>
    /\ history = <<>>
    /\ historyIndex = -1
    /\ closureIndex = -1
    /\ name = <<>>
    /\ pending = {}
    /\ tableRows = <<>>
    /\ fetched = [phase |-> "sent", data |-> <<>>]
    /\ realtime = {}
    /\ clearFiresRemoved \in BOOLEAN
    /\ sprite = <<>>
    /\ stale = {}
    /\ api = [method |-> "GET", body |-> NoBody, phase |-> "idle",
              sent |-> <<>>, rows |-> 0]
    /\ opLog = <<>>
    /\ openedAt = <<0, 0>>
    /\ active = 0
    /\ loading = 0
    /\ zoom = 10
    /\ color = "#00ffc3"
    /\ brushSize = 5
    /\ isErasing = FALSE
    /\ brushType = "pencil"
    /\ brushes = [b \in {"pencil", "spray", "pattern"} |-> NoBrush]
    /\ freeDrawingBrush = "pencil"

(* ------------------------------ brushes ------------------------------- *)
\* the brush object that the brush effect's switch picks for a brush type
BrushFor(type) ==
    CASE type = "spray" -> "spray"
      [] type = "calligraphic" -> "pattern"
      [] OTHER -> freeDrawingBrush

\* the init effect's brushes: a pencil, a spray and a pattern brush with the
\* color and the size of that render, the pencil installed
NewBrushes ==
    /\ brushes' = [b \in {"pencil", "spray", "pattern"} |->
                      [color |-> color, width |-> brushSize]]
    /\ freeDrawingBrush' = "pencil"

\* the brush effect, run with the values of the render after a change
BrushEffect(type, c, size, erasing) ==
    IF fabricRef = "null"
    THEN UNCHANGED brushVars
    ELSE LET b == BrushFor(type)
         IN  /\ freeDrawingBrush' = b
             /\ brushes' = [brushes EXCEPT
                              ![b] = [color |-> IF erasing THEN Background
                                                           ELSE c,
                                      width |-> size]]

(* ------------------------------ geometry ------------------------------ *)
\* Angles are whole millionths of a degree, so that 1 is the tolerance of
\* 1e-6 degrees.  Math.cos and Math.sin are tabulated, times 5, at the
\* twelve directions of (-180, 180] where both are rational: a is the
\* angle, c = 5 cos a, s = 5 sin a.  The arithmetic on them is exact.
RightAngle == 90000000
HalfTurn == 180000000
FullTurn == 360000000
Directions ==
    {[a |-> 0, c |-> 5, s |-> 0],
     [a |-> 36869898, c |-> 4, s |-> 3],
     [a |-> 53130102, c |-> 3, s |-> 4],
     [a |-> 90000000, c |-> 0, s |-> 5],
     [a |-> 126869898, c |-> -3, s |-> 4],
     [a |-> 143130102, c |-> -4, s |-> 3],
     [a |-> 180000000, c |-> -5, s |-> 0],
     [a |-> -36869898, c |-> 4, s |-> -3],
     [a |-> -53130102, c |-> 3, s |-> -4],
     [a |-> -90000000, c |-> 0, s |-> -5],
     [a |-> -126869898, c |-> -3, s |-> -4],
     [a |-> -143130102, c |-> -4, s |-> -3]}

\* 5 * Math.cos(a) and 5 * Math.sin(a) for a tabulated angle
Cos5(a) == (CHOOSE d \in Directions : d.a = a).c
Sin5(a) == (CHOOSE d \in Directions : d.a = a).s

\* Landmarks: r = 5.15, in hundredths
SpriteRadius == 515

\* Landmarks: the position of the sprite of a landmark at (lat, lng), in
\* units of 1/2500 (hundredths from r, 1/5 from each of the two factors;
\* y has one factor only and is multiplied by 5 to share the unit)
Position(lat, lng) ==
    LET phi == RightAngle - lat
        theta == lng
        r == SpriteRadius
    IN  <<r * Sin5(phi) * Cos5(theta),
          r * Cos5(phi) * 5,
          r * Sin5(phi) * Sin5(theta)>>

\* the largest k in lo..hi with k * k <= n
RECURSIVE SqrtIn(_, _, _)
SqrtIn(n, lo, hi) ==
    IF lo = hi THEN lo
    ELSE LET mid == (lo + hi + 1) \div 2
         IN  IF mid * mid <= n THEN SqrtIn(n, mid, hi)
                               ELSE SqrtIn(n, lo, mid - 1)

\* Math.sqrt, for the squares that the points of the model give
Sqrt(n) == SqrtIn(n, 0, Min(n, 46340))

\* Math.acos(y / r) in [0, 180], for a quotient the table holds
Acos(y, r) == (CHOOSE d \in Directions : d.a >= 0 /\ d.c * r = 5 * y).a

\* Math.atan2(z, x) in (-180, 180]; atan2(0, 0) is 0
Atan2(z, x) ==
    IF z = 0 /\ x = 0 THEN 0
    ELSE (CHOOSE d \in Directions :
              d.c * z = d.s * x /\ d.c * x + d.s * z > 0).a

\* the % operator of JavaScript: the remainder has the sign of the dividend
JsRem(a, n) == IF a >= 0 THEN a % n ELSE 0 - ((0 - a) % n)

\* the number NaN, which handleClick only stores
NaN == -2147483647

\* Earth.handleClick: the latitude computed from the picked point;
\* for r = 0 the quotient y / r is 0 / 0, which is NaN, and stays NaN
ClickLat(point) ==
    LET x == point[1]
        y == point[2]
        z == point[3]
        r == Sqrt(x * x + y * y + z * z)
    IN  IF r = 0 THEN NaN ELSE RightAngle - Acos(y, r)

\* a handleClick that hands atan2 its arguments in the other order
ClickLngSwapped(point) ==
    LET x == point[1]
        z == point[3]
        lng == JsRem(Atan2(x, z), FullTurn)
        up == IF lng < 0 - HalfTurn THEN lng + FullTurn ELSE lng
    IN  IF up > HalfTurn THEN up - FullTurn ELSE up

\* Earth.handleClick: the longitude computed from the picked point
ClickLng(point) ==
    LET x == point[1]
        z == point[3]
        lng == JsRem(Atan2(z, x), FullTurn)
        up == IF lng < 0 - HalfTurn THEN lng + FullTurn ELSE lng
    IN  IF up > HalfTurn THEN up - FullTurn ELSE up

\* the coordinates of the landmarks that Landmarks draws in the model
\* (a pole and both hemispheres; every quadrant, the axes and the date line)
GeoLats == {RightAngle, 36869898, -53130102}
GeoLngs == {0, 36869898, 90000000, 126869898, 180000000,
            -53130102, -90000000, -143130102}

\* points the ray cast of a click hands to handleClick: two on the base
\* sphere of radius 5 (the pole and a point of the equator), and the centre
ClickPoints == {<<0, 12500, 0>>, <<7500, 0, 10000>>, <<0, 0, 0>>}

(* ------------------------------ actions ------------------------------- *)
\* canvas.discardActiveObject() if the canvas is emptied or rebuilt
Deselected(rebuilt) == active' = IF rebuilt THEN 0 ELSE active

\* an init effect without cleanup: the canvas of a closed panel stays live
DisposedNever ==
    /\ UNCHANGED <<fabricRef, liveCanvases>>
    /\ canvas' = IF isDrawingPanelOpen THEN <<>> ELSE canvas
    /\ openedAt' = <<0, 0>>
    /\ Deselected(isDrawingPanelOpen)
    /\ UNCHANGED brushVars

\* canvas.dispose() of the init effect's cleanup, when the panel closes
Disposed ==
    /\ fabricRef' = IF isDrawingPanelOpen THEN "disposed" ELSE fabricRef
    /\ liveCanvases' = IF isDrawingPanelOpen THEN liveCanvases - 1
                                              ELSE liveCanvases
    /\ canvas' = IF isDrawingPanelOpen THEN <<>> ELSE canvas
    /\ openedAt' = <<0, 0>>
    /\ Deselected(isDrawingPanelOpen)
    /\ UNCHANGED brushVars

\* an init effect that creates the canvas but leaves the history as it is
HandleClickKeepsHistory(lat, lng) ==
    /\ isDrawingPanelOpen' = TRUE
    /\ currentLat' = lat
    /\ currentLng' = lng
    /\ IF isDrawingPanelOpen
       THEN UNCHANGED <<refVars, canvas, closureIndex, opLog>>
       ELSE /\ fabricRef' = "live"
            /\ liveCanvases' = liveCanvases + 1
            /\ openedAt' = <<lat, lng>>
            /\ NewBrushes
            /\ canvas' = <<>>
            /\ closureIndex' = historyIndex
            /\ opLog' = <<>>
    /\ UNCHANGED <<history, historyIndex, landmarks, landmarksIsFn, name,
                   saveVars, otherVars>>

\* Earth.handleClick with the computed coordinate, then the init effect
HandleClick(lat, lng) ==
    /\ isDrawingPanelOpen' = TRUE
    /\ currentLat' = lat
    /\ currentLng' = lng
    /\ IF isDrawingPanelOpen
       THEN UNCHANGED <<refVars, canvas, history, historyIndex,
                        closureIndex, opLog>>
       ELSE /\ fabricRef' = "live"
            /\ liveCanvases' = liveCanvases + 1
            /\ openedAt' = <<lat, lng>>
            /\ NewBrushes
            /\ canvas' = <<>>
            /\ history' = <<ToJSON(<<>>)>>
            /\ historyIndex' = 0
            /\ closureIndex' = historyIndex
            /\ opLog' = <<>>
    /\ UNCHANGED <<landmarks, landmarksIsFn, name, saveVars,
                   otherVars>>

\* Landmarks draws the sprite of a landmark at (lat, lng)
RenderLandmark(lat, lng) ==
    /\ sprite' = <<[lat |-> lat, lng |-> lng,
                    position |-> Position(lat, lng)]>>
    /\ UNCHANGED <<storeVars, refVars, canvas, history, historyIndex,
                   closureIndex, name, saveVars, clearFiresRemoved,
                   loading, toolVars, selVars, stale, api, opLog>>

\* Earth.handleClick for the picked point, then the init effect
PickPoint(point) == HandleClick(ClickLat(point), ClickLng(point))

\* a pick at the very place of the sprite drawn last
PickSprite ==
    /\ sprite # <<>>
    /\ PickPoint(sprite[1].position)

\* the CANCEL button
Cancel ==
    /\ isDrawingPanelOpen
    /\ isDrawingPanelOpen' = FALSE
    /\ currentLat' = 0
    /\ currentLng' = 0
    /\ Disposed
    /\ stale' = {p.call : p \in pending}
    /\ UNCHANGED <<landmarks, landmarksIsFn, history, historyIndex,
                   closureIndex, name, saveVars, restVars, opLog>>

\* canvas.add(obj): the object goes on top and 'object:added' fires
CanvasAdd(obj) ==
    LET cv == Append(canvas, obj)
        s  == SaveHistory(history, historyIndex, cv)
    IN  /\ canvas' = cv
        /\ history' = s.h
        /\ historyIndex' = s.i
        /\ opLog' = Logged("edit", cv, s.i, Len(s.h))

AddShape(type) ==
    /\ isDrawingPanelOpen
    /\ fabricRef # "null"
    /\ Len(canvas) < MaxObjs
    /\ historyIndex < MaxIndex
    /\ CanvasAdd([kind |-> type, at |-> 0, filters |-> <<>>])
    /\ UNCHANGED <<storeVars, refVars, closureIndex, name, saveVars,
                   otherVars>>

AddText ==
    /\ isDrawingPanelOpen
    /\ fabricRef # "null"
    /\ Len(canvas) < MaxObjs
    /\ historyIndex < MaxIndex
    /\ CanvasAdd([kind |-> "text", at |-> 0, filters |-> <<>>])
    /\ UNCHANGED <<storeVars, refVars, closureIndex, name, saveVars,
                   otherVars>>

\* the user drags object k to another place: 'object:modified' on release
ModifyObject(k, place) ==
    /\ isDrawingPanelOpen
    /\ k \in 1..Len(canvas)
    /\ canvas[k].at # place
    /\ historyIndex < MaxIndex
    /\ LET cv == [canvas EXCEPT ![k].at = place]
           s  == SaveHistory(history, historyIndex, cv)
       IN  /\ canvas' = cv
           /\ history' = s.h
           /\ historyIndex' = s.i
           /\ opLog' = Logged("edit", cv, s.i, Len(s.h))
    /\ UNCHANGED <<storeVars, refVars, closureIndex, name, saveVars,
                   idleVars>>
    /\ active' = k

\* the Clear All button: fabricRef.current?.clear()
ClearAll ==
    /\ isDrawingPanelOpen
    /\ historyIndex + Len(RemovedStates(canvas)) <= MaxIndex
    /\ LET s == SaveEach(history, historyIndex, RemovedStates(canvas))
       IN  /\ canvas' = <<>>
           /\ history' = s.h
           /\ historyIndex' = s.i
           /\ opLog' = Logged("clear", <<>>, s.i, Len(s.h))
    /\ UNCHANGED <<storeVars, refVars, closureIndex, name, saveVars,
                   idleVars>>
    /\ Deselected(TRUE)

\* Undo with its boundary test off by one and the cursor moved outside
\* loadFromJSON's callback
UndoOffByOne ==
    /\ isDrawingPanelOpen
    /\ IF historyIndex < 0 \/ fabricRef = "null"
       THEN UNCHANGED <<canvas, history, historyIndex>>
       ELSE /\ historyIndex' = historyIndex - 1
            /\ IF Defined(history, historyIndex - 1)
               THEN LET json == At(history, historyIndex - 1)
                        s    == SaveEach(history, historyIndex,
                                         LoadStates(canvas, json))
                    IN  /\ canvas' = json
                        /\ history' = s.h
               ELSE UNCHANGED <<canvas, history>>
    /\ opLog' = Logged("undo", canvas', historyIndex', Len(history'))
    /\ UNCHANGED <<storeVars, refVars, closureIndex, name, saveVars,
                   idleVars>>
    /\ Deselected(historyIndex' # historyIndex)

\* the Undo button
Undo ==
    /\ isDrawingPanelOpen
    /\ IF historyIndex <= 0 \/ fabricRef = "null"
          \/ ~Defined(history, historyIndex - 1)
       THEN UNCHANGED <<canvas, history, historyIndex>>
       ELSE LET json == At(history, historyIndex - 1)
                s    == SaveEach(history, historyIndex,
                                 LoadStates(canvas, json))
            IN  /\ canvas' = json
                /\ history' = s.h
                /\ historyIndex' = historyIndex - 1
    /\ opLog' = Logged("undo", canvas', historyIndex', Len(history'))
    /\ UNCHANGED <<storeVars, refVars, closureIndex, name, saveVars,
                   idleVars>>
    /\ Deselected(historyIndex' # historyIndex)

\* Redo with its boundary test off by one and the cursor moved outside
\* loadFromJSON's callback
RedoOffByOne ==
    /\ isDrawingPanelOpen
    /\ IF historyIndex > Len(history) - 1 \/ fabricRef = "null"
       THEN UNCHANGED <<canvas, history, historyIndex>>
       ELSE /\ historyIndex < MaxIndex
            /\ historyIndex' = historyIndex + 1
            /\ IF Defined(history, historyIndex + 1)
               THEN LET json == At(history, historyIndex + 1)
                        s    == SaveEach(history, historyIndex,
                                         LoadStates(canvas, json))
                    IN  /\ canvas' = json
                        /\ history' = s.h
               ELSE UNCHANGED <<canvas, history>>
    /\ opLog' = Logged("redo", canvas', historyIndex', Len(history'))
    /\ UNCHANGED <<storeVars, refVars, closureIndex, name, saveVars,
                   idleVars>>
    /\ Deselected(historyIndex' # historyIndex)

\* the Redo button
Redo ==
    /\ isDrawingPanelOpen
    /\ IF historyIndex >= Len(history) - 1 \/ fabricRef = "null"
       THEN UNCHANGED <<canvas, history, historyIndex>>
       ELSE /\ historyIndex < MaxIndex
            /\ LET json == At(history, historyIndex + 1)
                    s    == SaveEach(history, historyIndex,
                                     LoadStates(canvas, json))
                IN  /\ canvas' = json
                    /\ history' = s.h
                    /\ historyIndex' = historyIndex + 1
    /\ opLog' = Logged("redo", canvas', historyIndex', Len(history'))
    /\ UNCHANGED <<storeVars, refVars, closureIndex, name, saveVars,
                   idleVars>>
    /\ Deselected(historyIndex' # historyIndex)

\* the name input's onChange
SetName(n) ==
    /\ isDrawingPanelOpen
    /\ name' = n
    /\ UNCHANGED <<storeVars, refVars, canvas, history, historyIndex,
                   closureIndex, saveVars, otherVars, opLog>>

\* a click on object k of the canvas selects it
SelectObject(k) ==
    /\ isDrawingPanelOpen
    /\ k \in 1..Len(canvas)
    /\ active # k
    /\ active' = k
    /\ UNCHANGED <<storeVars, refVars, canvas, history, historyIndex,
                   closureIndex, name, saveVars, idleVars, opLog>>

\* a click on the empty canvas discards the selection
Deselect ==
    /\ isDrawingPanelOpen
    /\ active # 0
    /\ Deselected(TRUE)
    /\ UNCHANGED <<storeVars, refVars, canvas, history, historyIndex,
                   closureIndex, name, saveVars, idleVars, opLog>>

\* importImage: a file is chosen and the FileReader starts reading it
ImportImage ==
    /\ isDrawingPanelOpen
    /\ Len(canvas) + loading < MaxObjs
    /\ loading' = loading + 1
    /\ UNCHANGED <<storeVars, refVars, canvas, history, historyIndex,
                   closureIndex, name, saveVars, envVars, stale, toolVars,
                   selVars, opLog>>

\* reader.onload and fabric.Image.fromURL's callback: the image is added to
\* the canvas fabricRef.current points to at that time.  On a disposed
\* canvas the add may still fire 'object:added' (fires) or not
ImageLoaded(fires) ==
    /\ loading > 0
    /\ loading' = loading - 1
    /\ historyIndex < MaxIndex
    /\ IF isDrawingPanelOpen
       THEN /\ ~fires
            /\ Len(canvas) < MaxObjs
            /\ CanvasAdd([kind |-> "image", at |-> 0, filters |-> <<>>])
       ELSE LET cv == <<[kind |-> "image", at |-> 0, filters |-> <<>>]>>
                s  == SaveHistory(history, historyIndex, cv)
            IN  /\ history' = IF fires THEN s.h ELSE history
                /\ historyIndex' = IF fires THEN s.i ELSE historyIndex
                /\ UNCHANGED <<canvas, opLog>>
    /\ UNCHANGED <<storeVars, refVars, closureIndex, name, saveVars,
                   envVars, stale, toolVars, selVars>>

\* applyFilter pushing onto the filters the object has
ApplyFilterKeepsOld(filterType) ==
    /\ isDrawingPanelOpen
    /\ IF fabricRef = "null" \/ active = 0
       THEN UNCHANGED canvas
       ELSE /\ Len(canvas[active].filters) < 2
            /\ canvas' = [canvas EXCEPT
                            ![active].filters = Append(@, filterType)]
    /\ UNCHANGED <<storeVars, refVars, history, historyIndex, closureIndex,
                   name, saveVars, idleVars, active, opLog>>

\* applyFilter falling back to the top object when nothing is selected
ApplyFilterToTop(filterType) ==
    /\ isDrawingPanelOpen
    /\ IF fabricRef = "null" \/ canvas = <<>>
       THEN UNCHANGED canvas
       ELSE LET k == IF active = 0 THEN Len(canvas) ELSE active
            IN  canvas' = [canvas EXCEPT ![k].filters = <<filterType>>]
    /\ UNCHANGED <<storeVars, refVars, history, historyIndex, closureIndex,
                   name, saveVars, idleVars, active, opLog>>

\* a filter button: applyFilter(filterType).  The filter list of the active
\* object is replaced; applyFilters() exists on images only, on any other
\* object the call throws after the list was assigned.  No canvas event
\* fires, so saveHistory does not run
ApplyFilter(filterType) ==
    /\ isDrawingPanelOpen
    /\ IF fabricRef = "null" \/ active = 0
       THEN UNCHANGED canvas
       ELSE canvas' = [canvas EXCEPT ![active].filters = <<filterType>>]
    /\ UNCHANGED <<storeVars, refVars, history, historyIndex, closureIndex,
                   name, saveVars, idleVars, active, opLog>>

\* a tool control of the panel sets its state; the brush effect runs after
\* the render if one of its dependencies changed
ToolChange(type, c, size, erasing) ==
    /\ isDrawingPanelOpen
    /\ <<type, c, size, erasing>> # <<brushType, color, brushSize, isErasing>>
    /\ brushType' = type
    /\ color' = c
    /\ brushSize' = size
    /\ isErasing' = erasing
    /\ BrushEffect(type, c, size, erasing)
    /\ UNCHANGED <<storeVars, fabricRef, liveCanvases, openedAt, canvas,
                   history, historyIndex, closureIndex, name, saveVars,
                   envVars, stale, loading, zoom, selVars, opLog>>

\* the Brush and Eraser buttons
SetIsErasing(erasing) == ToolChange(brushType, color, brushSize, erasing)

\* the brush type select
SetBrushType(type) == ToolChange(type, color, brushSize, isErasing)

\* the color picker
SetColor(c) == ToolChange(brushType, c, brushSize, isErasing)

\* the size range input
SetBrushSize(size) == ToolChange(brushType, color, size, isErasing)

\* the zoom-in button without its upper limit
ZoomInUnclamped ==
    /\ isDrawingPanelOpen
    /\ zoom' = zoom + 1
    /\ UNCHANGED <<storeVars, refVars, canvas, history, historyIndex,
                   closureIndex, name, saveVars, envVars, stale, loading,
                   color, brushSize, isErasing, brushType, selVars, opLog>>

\* the zoom-in button: Math.min(z + 0.1, 3)
ZoomIn ==
    /\ isDrawingPanelOpen
    /\ zoom' = Min(zoom + 1, ZoomMax)
    /\ UNCHANGED <<storeVars, refVars, canvas, history, historyIndex,
                   closureIndex, name, saveVars, envVars, stale, loading,
                   color, brushSize, isErasing, brushType, selVars, opLog>>

\* the zoom-out button: Math.max(z - 0.1, 0.5)
ZoomOut ==
    /\ isDrawingPanelOpen
    /\ zoom' = Max(zoom - 1, ZoomMin)
    /\ UNCHANGED <<storeVars, refVars, canvas, history, historyIndex,
                   closureIndex, name, saveVars, envVars, stale, loading,
                   color, brushSize, isErasing, brushType, selVars, opLog>>

\* the name input receiving text without a maxLength
TypeNameUncut(text) == SetName(text)

\* text entered into the name input: the input keeps at most maxLength
\* characters of it, and onChange stores what the input holds
TypeName(text) == SetName(Slice(text, NameMaxLength))

\* handleSave testing the name without trimming it
HandleSaveNoTrim ==
    /\ isDrawingPanelOpen
    /\ IF name = <<>> \/ fabricRef = "null"
       THEN UNCHANGED pending
       ELSE /\ Unstored + Len(tableRows) < MaxSaves
            /\ pending' = pending \cup
                 {[call |-> FreeCall,
                   row |-> 0,
                   name |-> name,
                   lat |-> currentLat,
                   lng |-> currentLng,
                   drawing_data |-> ToDataURL(canvas)]}
    /\ UNCHANGED <<storeVars, refVars, canvas, history, historyIndex,
                   closureIndex, name, serverVars, otherVars, opLog>>

\* the SAVE button, up to the await of the insert
HandleSave ==
    /\ isDrawingPanelOpen
    /\ IF Trim(name) = <<>> \/ fabricRef = "null"
       THEN UNCHANGED pending
       ELSE /\ Unstored + Len(tableRows) < MaxSaves
            /\ pending' = pending \cup
                 {[call |-> FreeCall,
                   row |-> 0,
                   name |-> name,
                   lat |-> currentLat,
                   lng |-> currentLng,
                   drawing_data |-> ToDataURL(canvas)]}
    /\ UNCHANGED <<storeVars, refVars, canvas, history, historyIndex,
                   closureIndex, name, serverVars, otherVars, opLog>>

\* the server stores the row of an insert in flight and announces it
ServerInserts(p) ==
    /\ p \in pending
    /\ p.row = 0
    /\ tableRows' = Append(tableRows, StoredRow(Len(tableRows) + 1, p))
    /\ pending' = (pending \ {p}) \cup {[p EXCEPT !.row = Len(tableRows) + 1]}
    /\ realtime' = realtime \cup {Len(tableRows) + 1}
    /\ UNCHANGED <<storeVars, refVars, canvas, history, historyIndex,
                   closureIndex, name, fetched, otherVars, opLog>>

\* the insert resolves with the stored row: the rest of handleSave's try.
\* addLandmark spreads store.landmarks, which throws when that is not an
\* array; the throw lands in handleSave's catch
SaveSucceeds(p) ==
    /\ p \in pending
    /\ p.row # 0
    /\ pending' = pending \ {p}
    /\ IF landmarksIsFn
       THEN /\ stale' = stale \ {p.call}
            /\ UNCHANGED <<storeVars, refVars, canvas, name, selVars>>
       ELSE /\ landmarks' = Append(landmarks, tableRows[p.row])
            /\ isDrawingPanelOpen' = FALSE
            /\ currentLat' = 0
            /\ currentLng' = 0
            /\ Disposed
            /\ name' = <<>>
            /\ stale' = IF isDrawingPanelOpen
                        THEN {q.call : q \in pending \ {p}}
                        ELSE stale \ {p.call}
            /\ UNCHANGED landmarksIsFn
    /\ UNCHANGED <<history, historyIndex, closureIndex, serverVars,
                   restVars, opLog>>

\* the insert resolves with an error: handleSave's catch
SaveFails(p) ==
    /\ p \in pending
    /\ pending' = pending \ {p}
    /\ stale' = stale \ {p.call}
    /\ UNCHANGED <<storeVars, refVars, canvas, history, historyIndex,
                   closureIndex, name, serverVars, restVars, selVars, opLog>>

(* ------------------------ Home: load and realtime --------------------- *)
\* the server answers the select('*') with the rows it holds at that time
FetchAnswered ==
    /\ fetched.phase = "sent"
    /\ fetched' = [phase |-> "answered", data |-> tableRows]
    /\ UNCHANGED <<storeVars, refVars, canvas, history, historyIndex,
                   closureIndex, name, pending, tableRows, realtime,
                   otherVars, opLog>>

\* fetchLandmarks resumes with data: setLandmarks(data)
FetchArrives ==
    /\ fetched.phase = "answered"
    /\ fetched' = [phase |-> "done", data |-> <<>>]
    /\ landmarks' = fetched.data
    /\ landmarksIsFn' = FALSE
    /\ UNCHANGED <<isDrawingPanelOpen, currentLat, currentLng, refVars, canvas,
                   history, historyIndex, closureIndex, name, pending,
                   tableRows, realtime, otherVars, opLog>>

\* fetchLandmarks resumes with an error: nothing is stored
FetchFails ==
    /\ fetched.phase # "done"
    /\ fetched' = [phase |-> "done", data |-> <<>>]
    /\ UNCHANGED <<storeVars, refVars, canvas, history, historyIndex,
                   closureIndex, name, pending, tableRows, realtime,
                   otherVars, opLog>>

\* the 'postgres_changes' INSERT callback with payload.new = tableRows[id]:
\* setLandmarks receives an arrow function; the store's setLandmarks is
\* (landmarks) => set({ landmarks }), so the function itself is stored
RealtimeInsert(id) ==
    /\ id \in realtime
    /\ realtime' = realtime \ {id}
    /\ landmarks' = <<>>
    /\ landmarksIsFn' = TRUE
    /\ UNCHANGED <<isDrawingPanelOpen, currentLat, currentLng, refVars, canvas,
                   history, historyIndex, closureIndex, name, pending,
                   tableRows, fetched, otherVars, opLog>>

\* another client stores a landmark
ExternalInsert ==
    /\ Unstored + Len(tableRows) < MaxSaves
    /\ tableRows' = Append(tableRows,
                           StoredRow(Len(tableRows) + 1, OtherLandmark))
    /\ realtime' = realtime \cup {Len(tableRows) + 1}
    /\ UNCHANGED <<storeVars, refVars, canvas, history, historyIndex,
                   closureIndex, name, pending, fetched, otherVars,
                   opLog>>

(* ------------------------- the landmarks API -------------------------- *)
\* A field of req.body is <<>> when it is undefined and <<v>> when it has
\* the value v; a name is a sequence of characters, so <<<<>>>> is ''.
ApiMethods == {"GET", "POST", "DELETE"}
ApiBodies ==
    [name : {<<>>, <<<<>>>>, <<<<"a">>>>},
     lat : {<<>>, <<0>>, <<12000000>>},
     lng : {<<>>, <<0>>, <<-56000000>>},
     drawing_data : {<<>>, <<[png |-> <<>>]>>}]

\* a handler that does not look at drawing_data
MissingFieldsButData(body) ==
    \/ body.name = <<>> \/ body.name = <<<<>>>>
    \/ body.lat = <<>>
    \/ body.lng = <<>>

\* !name || lat === undefined || lng === undefined || !drawing_data
\* (of the values modelled, undefined and '' are the falsy ones)
MissingFields(body) ==
    \/ body.name = <<>> \/ body.name = <<<<>>>>
    \/ body.lat = <<>>
    \/ body.lng = <<>>
    \/ body.drawing_data = <<>>

\* res.status(status).json(json) or .end(json), as the request's last step
Respond(status, json) ==
    api' = [api EXCEPT !.phase = "done",
                       !.sent = Append(@, [status |-> status, json |-> json])]

\* a request arrives and the handler runs to its first await or to its end
ApiRequest(method, body) ==
    /\ api.phase \in {"idle", "done"}
    /\ LET req == [method |-> method, body |-> body, phase |-> "idle",
                   sent |-> <<>>, rows |-> 0]
       IN  CASE method = "GET" -> api' = [req EXCEPT !.phase = "select"]
             [] method = "POST" ->
                  IF MissingFields(body)
                  THEN api' = [req EXCEPT
                                 !.phase = "done",
                                 !.sent = <<[status |-> 400,
                                             json |-> "Missing required fields"]>>]
                  ELSE api' = [req EXCEPT !.phase = "insert"]
             [] OTHER ->
                  api' = [req EXCEPT
                            !.phase = "done",
                            !.sent = <<[status |-> 405,
                                        json |-> "Method Not Allowed"]>>]
    /\ UNCHANGED <<storeVars, refVars, canvas, history, historyIndex,
                   closureIndex, name, saveVars, clearFiresRemoved, sprite,
                   loading, toolVars, selVars, stale, opLog>>

\* the select of a GET resolves, with the rows or with an error
ApiSelectAnswers(error) ==
    /\ api.phase = "select"
    /\ IF error THEN Respond(500, "error")
                ELSE Respond(200, tableRows)
    /\ UNCHANGED <<storeVars, refVars, canvas, history, historyIndex,
                   closureIndex, name, saveVars, clearFiresRemoved, sprite,
                   loading, toolVars, selVars, stale, opLog>>

\* the server stores the row of a POST and announces it
ApiServerInserts ==
    /\ api.phase = "insert"
    /\ Unstored + Len(tableRows) < MaxSaves
    /\ tableRows' = Append(tableRows,
           StoredRow(Len(tableRows) + 1,
                     [name |-> api.body.name[1],
                      lat |-> api.body.lat[1],
                      lng |-> api.body.lng[1],
                      drawing_data |-> api.body.drawing_data[1]]))
    /\ realtime' = realtime \cup {Len(tableRows) + 1}
    /\ api' = [api EXCEPT !.phase = "stored", !.rows = @ + 1]
    /\ UNCHANGED <<storeVars, refVars, canvas, history, historyIndex,
                   closureIndex, name, pending, fetched, clearFiresRemoved,
                   sprite, loading, toolVars, selVars, stale, opLog>>

\* the insert of a POST resolves: with the stored row, or with an error
\* (the table refused the row, or the answer was lost)
ApiInsertAnswers(error) ==
    /\ api.phase \in {"insert", "stored"}
    /\ IF error
       THEN Respond(500, "error")
       ELSE /\ api.phase = "stored"
            /\ Respond(201, tableRows[Len(tableRows)])
    /\ UNCHANGED <<storeVars, refVars, canvas, history, historyIndex,
                   closureIndex, name, saveVars, clearFiresRemoved, sprite,
                   loading, toolVars, selVars, stale, opLog>>

(* --------------------------- specifications -------------------------- *)
\* opening and closing a session: shared by every specification
NextSession ==
    \/ \E g \in Picks : HandleClick(g[1], g[2])
    \/ Cancel

\* the editor: everything that reads or writes the canvas and its history
NextEditor ==
    \/ NextSession
    \/ \E t \in ShapeTypes : AddShape(t)
    \/ AddText
    \/ \E k \in 1..MaxObjs, pl \in Places : ModifyObject(k, pl)
    \/ ClearAll
    \/ Undo
    \/ Redo

\* the save protocol: the name, the insert in flight and its completion
NextSave ==
    \/ NextSession
    \/ \E t \in ShapeTypes : AddShape(t)
    \/ \E n \in Names : SetName(n)
    \/ HandleSave
    \/ \E p \in pending : ServerInserts(p)
    \/ \E p \in pending : SaveSucceeds(p)
    \/ \E p \in pending : SaveFails(p)

\* the landmark collection: saves without drawing, the initial load, the
\* realtime notifications and the inserts of other clients
NextSync ==
    \/ NextSession
    \/ \E n \in Names : SetName(n)
    \/ HandleSave
    \/ \E p \in pending : ServerInserts(p)
    \/ \E p \in pending : SaveSucceeds(p)
    \/ \E p \in pending : SaveFails(p)
    \/ FetchAnswered
    \/ FetchArrives
    \/ FetchFails
    \/ \E id \in realtime : RealtimeInsert(id)
    \/ ExternalInsert

\* the name input and the save request, without drawing
NextName ==
    \/ NextSession
    \/ \E text \in Names \cup LongTexts : TypeName(text)
    \/ HandleSave
    \/ \E p \in pending : ServerInserts(p)
    \/ \E p \in pending : SaveSucceeds(p)
    \/ \E p \in pending : SaveFails(p)

\* images, the selection and the filters
NextFilter ==
    \/ NextSession
    \/ \E t \in ShapeTypes : AddShape(t)
    \/ ImportImage
    \/ \E fires \in BOOLEAN : ImageLoaded(fires)
    \/ \E k \in 1..MaxObjs : SelectObject(k)
    \/ Deselect
    \/ \E f \in FilterTypes : ApplyFilter(f)

\* the brush controls
NextTools ==
    \/ NextSession
    \/ \E e \in BOOLEAN : SetIsErasing(e)
    \/ \E t \in BrushTypes : SetBrushType(t)
    \/ \E c \in Colors : SetColor(c)
    \/ \E n \in Sizes : SetBrushSize(n)

\* the zoom buttons
NextZoom ==
    \/ NextSession
    \/ ZoomIn
    \/ ZoomOut

\* the globe: the sprites drawn and the picks, with the session they open
NextGeo ==
    \/ \E lat \in GeoLats, lng \in GeoLngs : RenderLandmark(lat, lng)
    \/ \E point \in ClickPoints : PickPoint(point)
    \/ PickSprite
    \/ Cancel

\* the API handler and the table it writes
NextApi ==
    \/ \E method \in ApiMethods, body \in ApiBodies :
           ApiRequest(method, body)
    \/ \E error \in BOOLEAN : ApiSelectAnswers(error)
    \/ ApiServerInserts
    \/ \E error \in BOOLEAN : ApiInsertAnswers(error)

Next ==
    \/ NextEditor \/ NextSave \/ NextSync \/ NextName \/ NextFilter
    \/ NextTools \/ NextZoom \/ NextGeo \/ NextApi

\* the whole panel
Spec == Init /\ [][Next]_vars

\* The editor alone.  The actions left out write the canvas and the history
\* only by closing the panel, which SaveSucceeds does exactly as Cancel does.
SpecEditor == Init /\ [][NextEditor]_vars

\* The save protocol, drawing with one tool.
SpecSave == Init /\ [][NextSave]_vars

\* The name input and the save protocol.
SpecName == Init /\ [][NextName]_vars

\* The brush controls over sessions.
SpecTools == Init /\ [][NextTools]_vars

\* The zoom buttons over sessions.
SpecZoom == Init /\ [][NextZoom]_vars

\* Images and filters, drawing with one shape.
SpecFilter == Init /\ [][NextFilter]_vars

\* The API handler, one request after the other.
SpecApi == Init /\ [][NextApi]_vars

\* The globe: landmark sprites and picks.
SpecGeo == Init /\ [][NextGeo]_vars

\* The landmark collection and everything that writes it.
SpecSync == Init /\ [][NextSync]_vars

(* ------------------------------- claims ------------------------------- *)
\* a committed mutation: an object is added or modified
EditStep ==
    \/ \E t \in ShapeTypes : AddShape(t)
    \/ AddText
    \/ \E k \in 1..MaxObjs, pl \in Places : ModifyObject(k, pl)

Range(s) == {s[j] : j \in 1..Len(s)}

\* C1: while a session is open the history cursor lies within the stack,
\* 0 <= historyIndex <= length(history) - 1.
C1_CursorInRange ==
    isDrawingPanelOpen =>
        0 <= historyIndex /\ historyIndex <= Len(history) - 1

\* C2: every committed mutation leaves the stack as the snapshots 0..cursor
\* (the cursor of that moment) followed by the new snapshot, and the cursor
\* on the new last index.
C2_SnapshotTruncatesAtCursor ==
    [][EditStep =>
         /\ history' = Append(Slice(history, historyIndex + 1), ToJSON(canvas'))
         /\ historyIndex' = Len(history') - 1]_vars

\* C3: while a session is open the snapshot under the cursor is the content
\* of the canvas (a drag is one step of the model, so none is in progress).
C3_SnapshotAtCursorIsCanvas ==
    isDrawingPanelOpen =>
        /\ Defined(history, historyIndex)
        /\ At(history, historyIndex) = ToJSON(canvas)

\* C4: in a fresh session, after edits E1, E2, E3 and then undo, undo, redo
\* the canvas is the state after E1.
C4_UndoUndoRedo ==
    LogOps = <<"edit", "edit", "edit", "undo", "undo", "redo">> =>
        canvas = opLog[1].cv

\* the snapshot of E3 differs from S0 and from those of E1, E2 and E4
E3IsDistinct ==
    opLog[3].cv \notin {<<>>, opLog[1].cv, opLog[2].cv, opLog[5].cv}

\* C5: in a fresh session, after edits E1, E2, E3, one undo and a new edit
\* E4, the snapshot of E3 is not in the history stack and a redo changes
\* neither the canvas, the stack nor the cursor.
C5_BranchDiscarded ==
    [][(LogOps = <<"edit", "edit", "edit", "undo", "edit">> /\ E3IsDistinct) =>
         /\ ToJSON(opLog[3].cv) \notin Range(history)
         /\ Redo => UNCHANGED <<canvas, history, historyIndex>>]_vars

\* C6: undo with cursor > 0 moves the cursor down by one, redo with cursor
\* < length - 1 moves it up by one, the canvas then shows the snapshot under
\* the new cursor, and the history stack is left as it was.
C6_UndoRedoMoveCursorOnly ==
    [][/\ (Undo /\ historyIndex > 0) =>
            /\ historyIndex' = historyIndex - 1
            /\ Defined(history', historyIndex')
            /\ canvas' = At(history', historyIndex')
            /\ history' = history
       /\ (Redo /\ historyIndex < Len(history) - 1) =>
            /\ historyIndex' = historyIndex + 1
            /\ Defined(history', historyIndex')
            /\ canvas' = At(history', historyIndex')
            /\ history' = history]_vars

\* C7: undo with the cursor at 0 changes neither the canvas, the history
\* stack nor the cursor.
C7_UndoAtStartIsNoOp ==
    [][(Undo /\ historyIndex = 0) =>
         UNCHANGED <<canvas, history, historyIndex>>]_vars

\* undo was pressed twice after one edit: the second time with the cursor
\* at 0 and an object-free canvas restored by the first
C7_Witness ==
    /\ isDrawingPanelOpen
    /\ LogOps = <<"edit", "undo", "undo">>
    /\ opLog[1].cv # <<>>
    /\ opLog[2].i = 0
    /\ opLog[3].i = 0
    /\ opLog[3].cv = opLog[2].cv
    /\ opLog[3].n = opLog[2].n

\* C8: redo with the cursor on the last index of the history stack changes
\* neither the canvas, the history stack nor the cursor.
C8_RedoAtEndIsNoOp ==
    [][(Redo /\ historyIndex = Len(history) - 1) =>
         UNCHANGED <<canvas, history, historyIndex>>]_vars

\* redo was pressed right after an edit that left the cursor on the last
\* index, and left everything as the edit had
C8_Witness ==
    /\ isDrawingPanelOpen
    /\ LogOps = <<"edit", "redo">>
    /\ opLog[1].i = opLog[1].n - 1
    /\ opLog[2].i = opLog[1].i
    /\ opLog[2].n = opLog[1].n
    /\ opLog[2].cv = opLog[1].cv
    /\ canvas # <<>>

\* C9: at most one insert is in flight at any time.
C9_OneSaveInFlight == Cardinality(pending) <= 1

\* C10: a save request whose name is empty after trimming issues no insert,
\* leaves the panel open and leaves the canvas, the history and the stored
\* coordinate as they were.
C10_EmptyNameRejected ==
    [][(HandleSave /\ Trim(name) = <<>>) =>
         /\ isDrawingPanelOpen'
         /\ UNCHANGED <<pending, canvas, history, historyIndex, currentLat,
                        currentLng, landmarks>>]_vars

\* a whitespace-only name is in the input of an open panel with a drawing
\* on the canvas and an insert already in flight: SAVE is rejected here
C10_Witness ==
    /\ isDrawingPanelOpen
    /\ name # <<>>
    /\ Trim(name) = <<>>
    /\ canvas # <<>>
    /\ pending # {}
    /\ ENABLED HandleSave

\* an insert in flight ends with an error
SaveFailStep == \E p \in pending : SaveFails(p)

\* C11: when the insert fails the panel is open afterwards, with the canvas,
\* the history, the name and the coordinate it had, and the landmarks are
\* unchanged, whatever the user did while the insert was in flight.
C11_FailureLeavesPanelOpen ==
    [][SaveFailStep =>
         /\ isDrawingPanelOpen'
         /\ UNCHANGED <<canvas, history, historyIndex, name, currentLat,
                        currentLng, landmarks>>]_vars

\* C12: when the insert reports success the panel is closed afterwards and
\* the landmarks hold the stored row that the insert returned.
C12_SuccessClosesAndAdds ==
    [][\A p \in pending :
         SaveSucceeds(p) =>
           /\ ~isDrawingPanelOpen'
           /\ ~landmarksIsFn'
           /\ tableRows[p.row] \in Range(landmarks')]_vars

\* C13: the landmarks never hold two records with the same id, also when the
\* row a save returned is delivered again by the initial load or by a
\* realtime notification.
C13_NoDuplicateIds ==
    \A i, j \in 1..Len(landmarks) :
        landmarks[i].id = landmarks[j].id => i = j

\* ids of the records the landmarks hold
HeldIds == {landmarks[j].id : j \in 1..Len(landmarks)}

\* C14: a realtime insert notification whose record has an id not yet held
\* leaves the landmarks as the list held before with the new record added.
C14_RealtimeInsertAppends ==
    [][\A id \in realtime :
         (RealtimeInsert(id) /\ ~landmarksIsFn /\ id \notin HeldIds) =>
           /\ ~landmarksIsFn'
           /\ landmarks' = Append(landmarks, tableRows[id])]_vars

\* C15: a record that the landmarks hold is still held, unchanged, after
\* every later event.
C15_CollectionOnlyGrows ==
    [][\A r \in Range(landmarks) : r \in Range(landmarks')]_vars

\* C16: the record a save request hands to the insert carries the coordinate
\* of the pick that opened the session, whatever happened in between.
C16_SavedAtOpeningPick ==
    [][HandleSave =>
         \A p \in pending' \ pending : <<p.lat, p.lng>> = openedAt]_vars

\* C17: the name of every record handed to the insert is 1 to 30 characters
\* long and is not empty after trimming.
C17_SavedNameWithinLimits ==
    \A p \in pending :
        /\ Len(p.name) >= 1
        /\ Len(p.name) <= 30
        /\ Trim(p.name) # <<>>

\* a record whose name fills the input, cut from a longer text, is in flight
C17_Witness ==
    \E p \in pending : Len(p.name) = NameMaxLength /\ Trim(p.name) = p.name

\* the panel goes from closed to open
OpenStep == ~isDrawingPanelOpen /\ isDrawingPanelOpen'

\* C18: closing the panel releases the session, so a session that opens
\* finds nothing of an earlier one: the name is empty and saveHistory works
\* on the cursor of a first session.
C18_NothingLeftOfClosedSession ==
    [][OpenStep => name' = <<>> /\ closureIndex' = -1]_vars

\* C19: right after the panel goes from closed to open the canvas has no
\* objects, the history holds one snapshot, that of the empty canvas, and the
\* cursor is 0, whatever the earlier sessions did.
C19_OpenStartsAfresh ==
    [][OpenStep =>
         /\ canvas' = <<>>
         /\ history' = <<ToJSON(<<>>)>>
         /\ historyIndex' = 0]_vars

\* a session has just opened after one that ended with edits in its history
C19_Witness ==
    /\ isDrawingPanelOpen
    /\ opLog = <<>>
    /\ closureIndex >= 2
    /\ canvas = <<>>
    /\ history = <<ToJSON(<<>>)>>
    /\ historyIndex = 0

\* C20: at most one fabric canvas is live (created and not disposed) at any
\* time, also when a point is picked while the panel is open.
C20_OneLiveCanvas == liveCanvases <= 1

\* a second session is open and a point was picked while it was open
C20_Witness ==
    /\ isDrawingPanelOpen
    /\ closureIndex >= 0
    /\ openedAt # <<currentLat, currentLng>>
    /\ liveCanvases = 1
    /\ fabricRef = "live"

\* a committed content mutation: an object is added, modified or filtered,
\* or the canvas is cleared, so that the serialized canvas changes
ContentStep ==
    /\ \/ EditStep
       \/ ImageLoaded(FALSE)
       \/ ClearAll
       \/ \E f \in FilterTypes : ApplyFilter(f)
    /\ isDrawingPanelOpen
    /\ ToJSON(canvas') # ToJSON(canvas)

\* C21: every committed content mutation (shape, text, image, removal,
\* filter on the selected object, clear) records one history snapshot: the
\* stack ends with the snapshot of the new canvas and the cursor moves up
\* by one.
C21_MutationRecordsSnapshot ==
    [][ContentStep =>
         /\ history' # <<>>
         /\ history'[Len(history')] = ToJSON(canvas')
         /\ historyIndex' = historyIndex + 1]_vars

\* applyFilter runs with no object selected
FilterNoSelection == (\E f \in FilterTypes : ApplyFilter(f)) /\ active = 0

\* C22: a filter button pressed while no object is selected changes neither
\* the filter list of any object, nor the canvas, nor the history.
C22_FilterNeedsSelection ==
    [][FilterNoSelection =>
         UNCHANGED <<canvas, history, historyIndex, active>>]_vars

\* the canvas holds an image and a shape, nothing is selected and a filter
\* button can be pressed
C22_Witness ==
    /\ isDrawingPanelOpen
    /\ active = 0
    /\ \E j, k \in 1..Len(canvas) :
           canvas[j].kind = "image" /\ canvas[k].kind # "image"
    /\ ENABLED FilterNoSelection

\* C23: a filter button replaces the filter list of the selected object by
\* the one filter pressed, whatever list the object had: pressing the same
\* button twice gives the list of pressing it once.
C23_FilterReplacesList ==
    [][\A f \in FilterTypes :
         (ApplyFilter(f) /\ active # 0) =>
           /\ canvas'[active].filters = <<f>>
           /\ \A k \in 1..Len(canvas) :
                  k # active => canvas'[k] = canvas[k]
           /\ Len(canvas') = Len(canvas)]_vars

\* the selected image carries a filter and another object a different one:
\* either button pressed now is a second filter on the selection
C23_Witness ==
    /\ isDrawingPanelOpen
    /\ active # 0
    /\ canvas[active].kind = "image"
    /\ canvas[active].filters = <<"blur">>
    /\ \E k \in 1..Len(canvas) : canvas[k].filters = <<"grayscale">>
    /\ ENABLED ApplyFilter("blur")

\* C24: while the panel is open and the eraser is selected, the brush
\* installed on the canvas has the background color of the canvas.
C24_EraserPaintsBackground ==
    (isDrawingPanelOpen /\ isErasing) =>
        brushes[freeDrawingBrush].color = Background

\* C25: the zoom factor stays within 0.5 and 3.0.
C25_ZoomWithinLimits == ZoomMin <= zoom /\ zoom <= ZoomMax

\* the zoom stands at its upper limit in a session opened after another
C25_Witness ==
    /\ isDrawingPanelOpen
    /\ zoom = ZoomMax
    /\ closureIndex >= 0
    /\ ENABLED ZoomIn


InDomain(g) ==
    /\ 0 - RightAngle < g.lat /\ g.lat < RightAngle
    /\ 0 - HalfTurn < g.lng /\ g.lng <= HalfTurn

Abs(n) == IF n < 0 THEN 0 - n ELSE n

C28_OldSaveLeavesNewSession ==
    [][\A p \in pending :
           (isDrawingPanelOpen /\ p.call \in stale /\ SaveSucceeds(p)) =>
               UNCHANGED <<isDrawingPanelOpen, name, currentLat,
                           currentLng>>]_vars


\* the brush object that a brush type names
BrushNamed(type) ==
    CASE type = "spray" -> "spray"
      [] type = "calligraphic" -> "pattern"
      [] OTHER -> "pencil"

\* C29: whenever a session is open, the brush installed on the canvas is
\* the one named by the selected brush type and its width is the selected
\* brush size.
C29_BrushFollowsSelection ==
    isDrawingPanelOpen =>
        /\ freeDrawingBrush = BrushNamed(brushType)
        /\ brushes[freeDrawingBrush].width = brushSize


\* name, lat, lng and drawing_data are all in the body
AllPresent(body) ==
    /\ body.name # <<>>
    /\ body.lat # <<>>
    /\ body.lng # <<>>
    /\ body.drawing_data # <<>>

\* C30: the API handler inserts a row only for a POST whose body has name,
\* lat, lng and drawing_data; a POST missing any of them is answered 400
\* with no insert; a request is never answered twice, a finished one has
\* been answered once with 200, 201, 400, 405 or 500, and one that waits
\* for the table can always be answered.
C30_ApiAnswersOnce ==
    /\ api.rows > 0 => (api.method = "POST" /\ AllPresent(api.body))
    /\ (api.phase # "idle" /\ api.method = "POST" /\ ~AllPresent(api.body)) =>
           /\ api.phase = "done"
           /\ api.rows = 0
           /\ api.sent[1].status = 400
    /\ Len(api.sent) <= 1
    /\ \A j \in 1..Len(api.sent) :
           api.sent[j].status \in {200, 201, 400, 405, 500}
    /\ api.phase = "done" => Len(api.sent) = 1
    /\ api.phase = "select" =>
           (api.sent = <<>> /\ ENABLED ApiSelectAnswers(TRUE))
    /\ api.phase \in {"insert", "stored"} =>
           (api.sent = <<>> /\ ENABLED ApiInsertAnswers(TRUE))

\* a POST with every field, at latitude 0, stored and answered 201 after an
\* earlier landmark
C30_Witness ==
    /\ api.phase = "done"
    /\ api.method = "POST"
    /\ AllPresent(api.body)
    /\ api.body.lat = <<0>>
    /\ api.rows = 1
    /\ api.sent[1].status = 201
    /\ api.sent[1].json.id = 2
=============================================================================
